---------------------------- MODULE Spec2Model ----------------------------
(***************************************************************************)
(* MeliDiscount: the asynchronous load tester (src/load_test.py) and the   *)
(* fixture seeder (src/main.py), as state machines.                        *)
(*                                                                         *)
(* Strings that the code transforms (file text, identifiers) are sequences *)
(* of one-character strings.  Elapsed times are whole seconds; the summary *)
(* prints hundredths of a millisecond ({:.2f} ms).  Rationals are pairs    *)
(* <<numerator, denominator>>.                                             *)
(***************************************************************************)
EXTENDS Integers, Sequences, FiniteSets, TLC

VARIABLES
    \* ---- load tester (src/load_test.py) ----
    args,               \* argparse namespace (line 127)
    pc,                 \* position of the __main__ block / run_load_test
    ids,                \* run_load_test: resolved identifiers
    batches,            \* run_load_test: batches
    results,            \* run_load_test: the shared results list
    wstate,             \* per worker: "ready" | "waiting" | "done" | "failed" | "cancelled"
    wpass,              \* per worker: passes completed (for _ in range(iterations))
    wbatch,             \* per worker: index of the next batch of the pass (0-based)
    issuedBy,           \* per worker: the <<pass, batch>> of every client.get started
    responses,          \* number of client.get calls that returned a response
    warnings,           \* number of WARN lines on stderr
    transportErrors,    \* number of client.get calls that raised
    stdout,             \* lines print_summary printed
    csvFile,            \* the file write_csv wrote
    \* ---- seeder (src/main.py) ----
    scfg,               \* ProductSeeder constructor arguments
    spc,                \* position of main.py's __main__ block
    categories_dict,    \* ProductSeeder.categories_dict
    leaf_ids,           \* ProductSeeder.leaf_ids
    category_repo,      \* ProductSeeder.category_repo._data
    product_repo,       \* ProductSeeder.product_repo._data
    product_index,      \* run: product_index
    sellerPos,          \* run: index in seller_ids of the current seller (1-based)
    innerPos,           \* run: products already created for the current seller
    created,            \* the Product objects create_product returned, in order
    report              \* run: files saved and the sizes printed (lines 242-248)

loadVars == <<args, pc, ids, batches, results, wstate, wpass,
              wbatch, issuedBy, responses, warnings, transportErrors, stdout, csvFile>>
seedVars == <<scfg, spc, categories_dict, leaf_ids, category_repo, product_repo,
              product_index, sellerPos, innerPos, created, report>>
vars == <<loadVars, seedVars>>

-----------------------------------------------------------------------------
(* Bounds and program constants *)

MaxConcurrency == 2
MaxRuns == 2
MaxNumIds == 2
MaxBatchSize == 2
MaxBatcherIds == 4
MaxSellers == 2
MaxPerSeller == 2

HTTP_OK == 200
MilliPerSecond == 1000
QuantileBuckets == 20
P95Index == 18
RootIdBase == 1000
PadWidth == 2

-----------------------------------------------------------------------------
(* Generic helpers *)

Min(a, b) == IF a <= b THEN a ELSE b

RECURSIVE SumSeq(_)
SumSeq(s) == IF s = <<>> THEN 0 ELSE Head(s) + SumSeq(Tail(s))

RECURSIVE Flatten(_)
Flatten(ss) == IF ss = <<>> THEN <<>> ELSE Head(ss) \o Flatten(Tail(ss))

SeqsUpTo(S, n) == UNION {[1..k -> S] : k \in 0..n}

\* Python str(int) for a natural number, as characters.
DigitChar(d) == CASE d = 0 -> "0" [] d = 1 -> "1" [] d = 2 -> "2" [] d = 3 -> "3"
                  [] d = 4 -> "4" [] d = 5 -> "5" [] d = 6 -> "6" [] d = 7 -> "7"
                  [] d = 8 -> "8" [] d = 9 -> "9"

RECURSIVE Decimal(_)
Decimal(n) == IF n < 10 THEN <<DigitChar(n)>>
              ELSE Decimal(n \div 10) \o <<DigitChar(n % 10)>>


-----------------------------------------------------------------------------
(* Load tester: ID source resolver (run_load_test, lines 71-80) *)

IsSpace(c) == c \in {" ", "\t"}

\* str.splitlines(): lines without their terminators, no trailing empty line.
RECURSIVE SplitAcc(_, _)
SplitAcc(text, cur) ==
    IF text = <<>> THEN (IF cur = <<>> THEN <<>> ELSE <<cur>>)
    ELSE IF Head(text) = "\n" THEN <<cur>> \o SplitAcc(Tail(text), <<>>)
    ELSE SplitAcc(Tail(text), Append(cur, Head(text)))

SplitLines(text) == SplitAcc(text, <<>>)

RECURSIVE LStrip(_)
LStrip(s) == IF s # <<>> /\ IsSpace(Head(s)) THEN LStrip(Tail(s)) ELSE s

RECURSIVE RStrip(_)
RStrip(s) == IF s # <<>> /\ IsSpace(s[Len(s)]) THEN RStrip(SubSeq(s, 1, Len(s) - 1)) ELSE s

\* str.strip()
Strip(s) == RStrip(LStrip(s))

\* The files --ids-file may name, by content (Path.read_text()).
FileText(name) ==
    CASE name = "blank.txt" -> <<" ", "\n", "\n", "\t", " ">>
      [] name = "ids.txt"   -> <<" ", "A", " ", "\n", "\n", "B", "C", "\n">>

\* [line.strip() for line in text.splitlines() if line.strip()]
RECURSIVE StripNonBlank(_)
StripNonBlank(lines) ==
    IF lines = <<>> THEN <<>>
    ELSE IF Strip(Head(lines)) # <<>>
         THEN <<Strip(Head(lines))>> \o StripNonBlank(Tail(lines))
         ELSE StripNonBlank(Tail(lines))

ReadIdsFile(name) == StripNonBlank(SplitLines(FileText(name)))

\* [f"MLA{i}" for i in range(n)]
SyntheticIds(n) == [k \in 1..n |-> <<"M", "L", "A">> \o Decimal(k - 1)]

\* Fault: the inline list tested before the file.
ResolveInlineFirst(a) ==
    IF a.ids # <<>> THEN a.ids
    ELSE IF a.ids_file # "" THEN ReadIdsFile(a.ids_file)
    ELSE SyntheticIds(a.num_ids)

\* The if / elif / else of lines 72-77 (truthiness of each argument).
ResolveIds(a) ==
    IF a.ids_file # "" THEN ReadIdsFile(a.ids_file)
    ELSE IF a.ids # <<>> THEN a.ids
    ELSE SyntheticIds(a.num_ids)

\* any([args.ids, args.ids_file, args.num_ids]) of line 129
AnySource(a) == a.ids # <<>> \/ a.ids_file # "" \/ a.num_ids # 0

-----------------------------------------------------------------------------
(* Load tester: batcher (run_load_test, line 83) *)

\* range(start, stop, step) for step > 0
RECURSIVE Range(_, _, _)
Range(start, stop, step) ==
    IF start >= stop THEN <<>> ELSE <<start>> \o Range(start + step, stop, step)

\* Fault: a slice that ends one element early.
SliceDropLast(s, i, j) == SubSeq(s, i + 1, Min(j, Len(s)) - 1)

\* seq[i : j] for 0 <= i <= j
Slice(s, i, j) == SubSeq(s, i + 1, Min(j, Len(s)))

\* [ids[i : i + batch_size] for i in range(0, len(ids), batch_size)]
Batches(idseq, batch_size) ==
    LET starts == Range(0, Len(idseq), batch_size)
    IN  [k \in 1..Len(starts) |-> Slice(idseq, starts[k], starts[k] + batch_size)]

-----------------------------------------------------------------------------
(* Load tester: summary statistics (print_summary, lines 96-105) *)

Sorted(times) == SortSeq(times, LAMBDA a, b : a < b)

\* round-half-even of n / d, d > 0, n >= 0
RoundHalfEven(n, d) ==
    LET q == n \div d
        r == n % d
    IN  IF 2 * r > d THEN q + 1
        ELSE IF 2 * r < d THEN q
        ELSE IF q % 2 = 0 THEN q ELSE q + 1

\* f"{milli(x):.2f}" for x = q[1]/q[2] seconds, in hundredths of a millisecond
Milli2f(q) == RoundHalfEven(q[1] * MilliPerSecond * 100, q[2])

\* statistics.mean
Mean(times) == <<SumSeq(times), Len(times)>>

\* statistics.median
Median(times) ==
    LET data == Sorted(times)
        n == Len(data)
    IN  IF n % 2 = 1 THEN <<data[(n \div 2) + 1], 1>>
        ELSE <<data[n \div 2] + data[(n \div 2) + 1], 2>>

\* statistics.quantiles(times, n=n, method="inclusive") for two or more points
QuantilesInclusive(times, n) ==
    LET data == Sorted(times)
        m == Len(data) - 1
    IN  [i \in 1..(n - 1) |->
            LET j == (i * m) \div n
                delta == (i * m) % n
            IN  <<data[j + 1] * (n - delta) + data[j + 2] * delta, n>>]

\* statistics.quantiles for a single point, where the interpreter accepts one
QuantilesOnePoint(times, n) == [i \in 1..(n - 1) |-> <<times[1], 1>>]

MinOf(times) == Sorted(times)[1]
MaxOf(times) == Sorted(times)[Len(times)]

Line(label, value) == [label |-> label, value |-> value]

\* Fault: a mean that defaults to zero on no data.
MeanNeverRaises(times) == FALSE

\* statistics.mean(times) raises StatisticsError
MeanRaises(times) == Len(times) = 0

\* statistics.quantiles(times, n=20) raises StatisticsError
QuantilesRaises(times, acceptsOne) ==
    Len(times) < 2 /\ ~(acceptsOne /\ Len(times) = 1)

\* What print_summary prints, and whether it raised before the end.
SummaryOf(times, acceptsOne) ==
    LET l0 == <<Line("header", <<>>), Line("Requests", <<Len(times)>>)>>
        meanq == IF Len(times) = 0 THEN <<0, 1>> ELSE Mean(times)
        medq  == IF Len(times) = 0 THEN <<0, 1>> ELSE Median(times)
        l1 == l0 \o <<Line("Mean", <<Milli2f(meanq)>>),
                      Line("Median", <<Milli2f(medq)>>)>>
        qs == IF Len(times) >= 2 THEN QuantilesInclusive(times, QuantileBuckets)
              ELSE QuantilesOnePoint(times, QuantileBuckets)
    IN  IF MeanRaises(times) THEN [lines |-> l0, raised |-> TRUE]
        ELSE IF QuantilesRaises(times, acceptsOne) THEN [lines |-> l1, raised |-> TRUE]
        ELSE [lines |-> l1 \o <<Line("P95", <<Milli2f(qs[P95Index + 1])>>),
                                Line("Min | Max", <<Milli2f(<<MinOf(times), 1>>),
                                                    Milli2f(<<MaxOf(times), 1>>)>>),
                                Line("footer", <<>>)>>,
              raised |-> FALSE]

\* write_csv: the header row, then [v * 1000] for every value
CsvOf(values) ==
    [written |-> TRUE, header |-> <<"elapsed_ms">>,
     rows |-> [k \in 1..Len(values) |-> values[k] * MilliPerSecond]]

NoCsv == [written |-> FALSE, header |-> <<>>, rows |-> <<>>]


-----------------------------------------------------------------------------
(* Load tester: command line, run_load_test, workers, __main__ *)

IdsFileArgs == {"", "blank.txt", "ids.txt"}
InlineArgs == {<<>>, << <<"X">>, <<"Y">> >>}
CsvArgs == {"", "times.csv"}
Elapsed == {1, 3}
StatusCodes == {HTTP_OK, 500}

ArgSpace ==
    [ids_file : IdsFileArgs, ids : InlineArgs, num_ids : (-1)..MaxNumIds,
     batch_size : 1..MaxBatchSize, concurrency : 0..MaxConcurrency,
     runs : 0..MaxRuns, csv : CsvArgs]

Workers == 1..Len(wstate)

\* State of the seeder before main.py starts.
SeedIdle ==
    /\ scfg = [num_sellers |-> 0, products_per_seller |-> 0, roots |-> 0, leaves_per_root |-> 0]
    /\ spc = "idle"
    /\ categories_dict = <<>>
    /\ leaf_ids = <<>>
    /\ category_repo = <<>>
    /\ product_repo = <<>>
    /\ product_index = 0
    /\ sellerPos = 0
    /\ innerPos = 0
    /\ created = <<>>
    /\ report = <<>>

\* State of the load tester after parser.parse_args() (line 127).
LoadParsed(a) ==
    /\ args = a
    /\ pc = "parsed"
    /\ ids = <<>>
    /\ batches = <<>>
    /\ results = <<>>
    /\ wstate = <<>>
    /\ wpass = <<>>
    /\ wbatch = <<>>
    /\ issuedBy = <<>>
    /\ responses = 0
    /\ warnings = 0
    /\ transportErrors = 0
    /\ stdout = <<>>
    /\ csvFile = NoCsv

Init == (\E a \in ArgSpace : LoadParsed(a)) /\ SeedIdle

\* __main__, lines 129-130: parser.error exits with status 2.
CheckSources ==
    /\ pc = "parsed"
    /\ pc' = IF AnySource(args) THEN "run" ELSE "usage_error"
    /\ UNCHANGED <<args, ids, batches, results, wstate, wpass, wbatch,
                   issuedBy, responses, warnings, transportErrors, stdout, csvFile>>
    /\ UNCHANGED seedVars

\* Fault: the empty list is let through.
RejectsNever(r) == FALSE

\* if not ids (line 79)
Rejects(r) == r = <<>>

\* run_load_test up to its await (lines 71-91): resolve, reject an empty list
\* (SystemExit), batch, create one worker task per unit of concurrency.
StartLoadTest ==
    /\ pc = "run"
    /\ LET r == ResolveIds(args)
       IN  IF Rejects(r)
           THEN /\ pc' = "config_error"
                /\ UNCHANGED <<ids, batches, wstate, wpass, wbatch, issuedBy>>
           ELSE /\ pc' = "gather"
                /\ ids' = r
                /\ batches' = Batches(r, args.batch_size)
                /\ wstate' = [w \in 1..args.concurrency |-> "ready"]
                /\ wpass' = [w \in 1..args.concurrency |-> 0]
                /\ wbatch' = [w \in 1..args.concurrency |-> 0]
                /\ issuedBy' = [w \in 1..args.concurrency |-> <<>>]
    /\ UNCHANGED <<args, results, responses, warnings,
                   transportErrors, stdout, csvFile>>
    /\ UNCHANGED seedVars

\* Fault: one pass too few.
HasNextOffByOne(w) == wpass[w] + 1 < args.runs /\ wbatch[w] < Len(batches)

\* The worker's two loops (lines 65-66) have a next batch to request.
HasNext(w) == wpass[w] < args.runs /\ wbatch[w] < Len(batches)

\* worker reaches client.get (line 46) and suspends.
Issue(w) ==
    /\ pc = "gather"
    /\ wstate[w] = "ready"
    /\ HasNext(w)
    /\ wstate' = [wstate EXCEPT ![w] = "waiting"]
    /\ issuedBy' = [issuedBy EXCEPT ![w] = Append(@, <<wpass[w], wbatch[w]>>)]
    /\ UNCHANGED <<args, pc, ids, batches, results, wpass, wbatch,
                   responses, warnings, transportErrors, stdout, csvFile>>
    /\ UNCHANGED seedVars

\* request_once line 49: the status is not the success code.
Warns(status) == status # HTTP_OK

\* Fault: only successful responses are sampled.
RecordsOnlySuccess(status) == status = HTTP_OK

\* Whether the elapsed time of a response with this status is appended (line 67).
Records(status) == TRUE

\* client.get returns (lines 46-54), the sample is appended (line 67) and the
\* loops advance.
Respond(w, status, elapsed) ==
    /\ pc = "gather"
    /\ wstate[w] = "waiting"
    /\ responses' = responses + 1
    /\ warnings' = IF Warns(status) THEN warnings + 1 ELSE warnings
    /\ results' = IF Records(status) THEN Append(results, elapsed) ELSE results
    /\ IF wbatch[w] + 1 < Len(batches)
       THEN /\ wbatch' = [wbatch EXCEPT ![w] = @ + 1]
            /\ UNCHANGED wpass
       ELSE /\ wbatch' = [wbatch EXCEPT ![w] = 0]
            /\ wpass' = [wpass EXCEPT ![w] = @ + 1]
    /\ wstate' = [wstate EXCEPT ![w] = "ready"]
    /\ UNCHANGED <<args, pc, ids, batches, issuedBy,
                   transportErrors, stdout, csvFile>>
    /\ UNCHANGED seedVars

\* The worker's loops are exhausted: the coroutine returns.
WorkerReturn(w) ==
    /\ pc = "gather"
    /\ wstate[w] = "ready"
    /\ ~HasNext(w)
    /\ wstate' = [wstate EXCEPT ![w] = "done"]
    /\ UNCHANGED <<args, pc, ids, batches, results, wpass, wbatch,
                   issuedBy, responses, warnings, transportErrors, stdout, csvFile>>
    /\ UNCHANGED seedVars

\* client.get raises (timeout, connection error): nothing catches it, the
\* worker task ends with the exception.
TransportError(w) ==
    /\ pc = "gather"
    /\ wstate[w] = "waiting"
    /\ wstate' = [wstate EXCEPT ![w] = "failed"]
    /\ transportErrors' = transportErrors + 1
    /\ UNCHANGED <<args, pc, ids, batches, results, wpass, wbatch,
                   issuedBy, responses, warnings, stdout, csvFile>>
    /\ UNCHANGED seedVars

\* Fault: asyncio.gather(*tasks, return_exceptions=True), exceptions are results.
GatherReturnExceptions(ws) ==
    IF \A w \in DOMAIN ws : ws[w] \in {"done", "failed"} THEN "return" ELSE "pending"

\* asyncio.gather(*tasks), line 91: raises the first exception of a task as
\* soon as one has failed, returns once every task has returned.
GatherOutcome(ws) ==
    IF \E w \in DOMAIN ws : ws[w] = "failed" THEN "raise"
    ELSE IF \A w \in DOMAIN ws : ws[w] = "done" THEN "return"
    ELSE "pending"

\* The exception leaves gather, run_load_test and asyncio.run (line 132), which
\* cancels the tasks still pending; the process ends with a traceback.  Until
\* this step the other workers keep running.
Abort ==
    /\ pc = "gather"
    /\ GatherOutcome(wstate) = "raise"
    /\ pc' = "aborted"
    /\ wstate' = [w \in Workers |->
                    IF wstate[w] \in {"ready", "waiting"} THEN "cancelled" ELSE wstate[w]]
    /\ UNCHANGED <<args, ids, batches, results, wpass, wbatch,
                   issuedBy, responses, warnings, transportErrors, stdout, csvFile>>
    /\ UNCHANGED seedVars

\* gather completes (line 91), run_load_test returns results (line 93).
Join ==
    /\ pc = "gather"
    /\ GatherOutcome(wstate) = "return"
    /\ pc' = "summary"
    /\ UNCHANGED <<args, ids, batches, results, wstate, wpass, wbatch,
                   issuedBy, responses, warnings, transportErrors, stdout, csvFile>>
    /\ UNCHANGED seedVars

\* print_summary(all_times), line 133.  statistics.quantiles rejects a single
\* data point before Python 3.13 and accepts it from 3.13 on: either
\* interpreter may run the script.
PrintSummary ==
    /\ pc = "summary"
    /\ \E acceptsOne \in BOOLEAN :
          LET s == SummaryOf(results, acceptsOne)
          IN  /\ stdout' = s.lines
              /\ pc' = IF s.raised THEN "crashed" ELSE "export"
    /\ UNCHANGED <<args, ids, batches, results, wstate, wpass, wbatch,
                   issuedBy, responses, warnings, transportErrors, csvFile>>
    /\ UNCHANGED seedVars

\* if args.csv: write_csv(args.csv, all_times), lines 135-136.
ExportCsv ==
    /\ pc = "export"
    /\ csvFile' = IF args.csv # "" THEN CsvOf(results) ELSE csvFile
    /\ pc' = "done"
    /\ UNCHANGED <<args, ids, batches, results, wstate, wpass, wbatch,
                   issuedBy, responses, warnings, transportErrors, stdout>>
    /\ UNCHANGED seedVars

Next ==
    \/ CheckSources
    \/ StartLoadTest
    \/ \E w \in Workers : Issue(w)
    \/ \E w \in Workers : \E status \in StatusCodes : \E elapsed \in Elapsed :
          Respond(w, status, elapsed)
    \/ \E w \in Workers : WorkerReturn(w)
    \/ \E w \in Workers : TransportError(w)
    \/ Abort
    \/ Join
    \/ PrintSummary
    \/ ExportCsv

Spec == Init /\ [][Next]_vars

\* The batcher on longer identifier lists: the command lines that give the
\* identifiers inline and start no worker.
BatcherArgs ==
    [ids_file : {""}, ids : SeqsUpTo({<<"X">>, <<"Y">>}, MaxBatcherIds), num_ids : {0},
     batch_size : 1..(MaxBatcherIds + 1), concurrency : {0}, runs : {0}, csv : {""}]

InitBatch == (\E a \in BatcherArgs : LoadParsed(a)) /\ SeedIdle

NextBatch == CheckSources \/ StartLoadTest

SpecBatch == InitBatch /\ [][NextBatch]_vars

\* The exit status of the process at a final position.
ExitStatus(p) ==
    CASE p = "done" -> 0
      [] p = "usage_error" -> 2
      [] p \in {"config_error", "aborted", "crashed"} -> 1

Final == {"done", "usage_error", "config_error", "aborted", "crashed"}


-----------------------------------------------------------------------------
(* Seeder: identifiers and CategoryFactory (src/main.py) *)

MLA == <<"M", "L", "A">>

\* f"{n:02}": decimal, zero-padded on the left to at least PadWidth characters
RECURSIVE PadLeft(_, _)
PadLeft(s, width) == IF Len(s) >= width THEN s ELSE PadLeft(<<"0">> \o s, width)

Pad(n) == PadLeft(Decimal(n), PadWidth)

\* f"MLA{1000 + r}", line 125
RootId(r) == MLA \o Decimal(RootIdBase + r)

\* Fault: f"MLA{r}{l}00", the leaf identifier without the padding.
LeafIdUnpadded(r, l) == MLA \o Decimal(r) \o Decimal(l) \o <<"0", "0">>

\* f"MLA{r:02}{l:02}00", line 137
LeafId(r, l) == MLA \o Pad(r) \o Pad(l) \o <<"0", "0">>

\* {"id": x}
Ref(x) == [id |-> x]

\* Category(...).to_dict(), lines 34-40
CategoryDict(cat_id, name, path_from_root, children_categories) ==
    [id |-> cat_id, name |-> name, path_from_root |-> path_from_root,
     children_categories |-> children_categories]

\* d[k] = v on a dict
Put(d, k, v) == IF k \in DOMAIN d THEN [d EXCEPT ![k] = v] ELSE (k :> v) @@ d

\* One iteration of the loop over leaves, lines 137-147.
LeafStep(st, r, l) ==
    LET root_id == RootId(r)
        leaf_id == LeafId(r, l)
        leaf == CategoryDict(leaf_id,
                             <<"Leaf Category ">> \o Decimal(r) \o <<"-">> \o Decimal(l),
                             <<Ref(root_id), Ref(leaf_id)>>, <<>>)
        c1 == Put(st.categories, leaf_id, leaf)
    IN  [categories |-> [c1 EXCEPT ![root_id].children_categories = Append(@, Ref(leaf_id))],
         leaf_ids |-> Append(st.leaf_ids, leaf_id)]

\* for l in range(1, leaves + 1), from l on (the test on st has the
\* evaluator compute st before the next iteration)
RECURSIVE LeafLoop(_, _, _, _)
LeafLoop(st, r, l, leaves) ==
    IF l > leaves \/ Len(st.leaf_ids) < 0 THEN st
    ELSE LeafLoop(LeafStep(st, r, l), r, l + 1, leaves)

\* One iteration of the loop over roots, lines 125-147.
RootStep(st, r, leaves) ==
    LET root_id == RootId(r)
        root == CategoryDict(root_id, <<"Root Category ">> \o Decimal(r),
                             <<Ref(root_id)>>, <<>>)
    IN  LeafLoop([categories |-> Put(st.categories, root_id, root),
                  leaf_ids |-> st.leaf_ids], r, 1, leaves)

\* for r in range(1, roots + 1), from r on
RECURSIVE RootLoop(_, _, _, _)
RootLoop(st, r, roots, leaves) ==
    IF r > roots \/ Len(st.leaf_ids) < 0 THEN st
    ELSE RootLoop(RootStep(st, r, leaves), r + 1, roots, leaves)

\* CategoryFactory(roots, leaves_per_root).create_categories(), lines 119-149
CreateCategories(roots, leaves) ==
    RootLoop([categories |-> <<>>, leaf_ids |-> <<>>], 1, roots, leaves)

-----------------------------------------------------------------------------
(* Seeder: ProductFactory, JsonRepository, ProductSeeder *)

\* generate_seller_ids: f"SELLER_{i}" for i in 1..count, line 85
SellerIds(count) == [i \in 1..count |-> <<"SELLER_">> \o Decimal(i)]

\* ProductFactory.create_product, lines 159-173, with category_id the leaf
\* random.choice drew.  Title, price and timestamps are random payload that
\* nothing reads back; the record keeps the identifying fields.
CreateProduct(index, seller_id, category_id) ==
    [id |-> MLA \o Decimal(index), seller_id |-> seller_id, category_id |-> category_id]

\* Product.to_dict(), lines 64-72: every field but the id
ProductDict(product) == [seller_id |-> product.seller_id, category_id |-> product.category_id]

\* Fault: product_index += 1 forgotten.
SameIndex(i) == i

\* product_index += 1, line 239
NextIndex(i) == i + 1

\* The (roots, leaves_per_root) the seeder is built with.  The last two are
\* run with no sellers: one product would branch over some ten thousand leaf
\* categories.  (101, 101) is the smallest shape in which two leaves get one
\* identifier.
SmallShapes == {<<0, 0>>, <<0, 2>>, <<2, 0>>, <<1, 1>>, <<1, 3>>, <<3, 1>>, <<2, 2>>}
WideShapes == {<<99, 99>>, <<101, 101>>}

SeederInputs ==
    {[num_sellers |-> s, products_per_seller |-> n, roots |-> sh[1], leaves_per_root |-> sh[2]] :
        s \in 0..MaxSellers, n \in 0..MaxPerSeller, sh \in SmallShapes}
    \cup
    {[num_sellers |-> 0, products_per_seller |-> n, roots |-> sh[1], leaves_per_root |-> sh[2]] :
        n \in {MaxPerSeller}, sh \in WideShapes}

\* State of the load tester while main.py runs.
LoadIdle ==
    LoadParsed([ids_file |-> "", ids |-> <<>>, num_ids |-> 0, batch_size |-> 1,
                concurrency |-> 0, runs |-> 0, csv |-> ""])

InitSeed ==
    /\ LoadIdle
    /\ scfg \in SeederInputs
    /\ spc = "start"
    /\ categories_dict = <<>>
    /\ leaf_ids = <<>>
    /\ category_repo = <<>>
    /\ product_repo = <<>>
    /\ product_index = 0
    /\ sellerPos = 0
    /\ innerPos = 0
    /\ created = <<>>
    /\ report = <<>>

\* ProductSeeder.__init__, lines 206-229 (bulk_add into the empty repository).
Construct ==
    /\ spc = "start"
    /\ \E made \in {CreateCategories(scfg.roots, scfg.leaves_per_root)} :
           /\ categories_dict' = made.categories
           /\ leaf_ids' = made.leaf_ids
           /\ category_repo' = categories_dict'
    /\ product_repo' = <<>>
    /\ spc' = "constructed"
    /\ UNCHANGED <<scfg, product_index, sellerPos, innerPos, created, report>>
    /\ UNCHANGED loadVars

\* run, lines 232-233.
RunBegin ==
    /\ spc = "constructed"
    /\ product_index' = 1
    /\ sellerPos' = 1
    /\ innerPos' = 0
    /\ spc' = "running"
    /\ UNCHANGED <<scfg, categories_dict, leaf_ids, category_repo, product_repo, created, report>>
    /\ UNCHANGED loadVars

\* One iteration of the inner loop, lines 237-239.  random.choice raises
\* IndexError on an empty leaf list and run ends there.
CreateAndAdd ==
    /\ spc = "running"
    /\ sellerPos <= scfg.num_sellers
    /\ innerPos < scfg.products_per_seller
    /\ IF leaf_ids = <<>>
       THEN /\ spc' = "index_error"
            /\ UNCHANGED <<product_repo, product_index, innerPos, created>>
       ELSE \E c \in 1..Len(leaf_ids) :
              LET product == CreateProduct(product_index,
                                           SellerIds(scfg.num_sellers)[sellerPos], leaf_ids[c])
              IN  /\ created' = Append(created, product)
                  /\ product_repo' = Put(product_repo, product.id, ProductDict(product))
                  /\ product_index' = NextIndex(product_index)
                  /\ innerPos' = innerPos + 1
                  /\ spc' = spc
    /\ UNCHANGED <<scfg, categories_dict, leaf_ids, category_repo, sellerPos, report>>
    /\ UNCHANGED loadVars

\* The inner loop is exhausted: the outer loop takes the next seller (line 235).
NextSeller ==
    /\ spc = "running"
    /\ sellerPos <= scfg.num_sellers
    /\ innerPos = scfg.products_per_seller
    /\ sellerPos' = sellerPos + 1
    /\ innerPos' = 0
    /\ UNCHANGED <<scfg, spc, categories_dict, leaf_ids, category_repo, product_repo,
                   product_index, created, report>>
    /\ UNCHANGED loadVars

\* Both repositories are saved and their sizes printed, lines 242-248.
Save ==
    /\ spc = "running"
    /\ sellerPos = scfg.num_sellers + 1
    /\ report' = <<Cardinality(DOMAIN category_repo), Cardinality(DOMAIN product_repo)>>
    /\ spc' = "saved"
    /\ UNCHANGED <<scfg, categories_dict, leaf_ids, category_repo, product_repo,
                   product_index, sellerPos, innerPos, created>>
    /\ UNCHANGED loadVars

NextSeed == Construct \/ RunBegin \/ CreateAndAdd \/ NextSeller \/ Save

SpecSeed == InitSeed /\ [][NextSeed]_vars

-----------------------------------------------------------------------------
(* Properties of the load tester *)

AfterJoin == {"summary", "export", "done", "crashed"}
AfterSummary == {"export", "done", "crashed"}

TotalIssued == SumSeq([w \in Workers |-> Len(issuedBy[w])])

\* Every <<pass, batch>> of R passes over B batches, in the order of the loops.
PassesTimesBatches(R, B) == [k \in 1..(R * B) |-> <<(k - 1) \div B, (k - 1) % B>>]

\* C1: a run that ends without a transport error has issued exactly
\* concurrency * runs * batch_count requests, each worker one request per
\* batch per pass, whatever the interleaving.
C1_TotalRequests ==
    (pc \in AfterJoin /\ transportErrors = 0) =>
        /\ Len(wstate) = args.concurrency
        /\ TotalIssued = args.concurrency * args.runs * Len(batches)
        /\ \A w \in Workers : issuedBy[w] = PassesTimesBatches(args.runs, Len(batches))

C1_Witness ==
    /\ pc = "done"
    /\ args.concurrency = 2 /\ args.runs = 2 /\ Len(batches) = 2
    /\ TotalIssued = 8
    /\ results # Sorted(results)

\* The least k with k * b >= n.
CeilDiv(n, b) == CHOOSE k \in 0..n : k * b >= n /\ (k = 0 \/ (k - 1) * b < n)

\* C2: for N >= 1 identifiers and batch size B the batcher produces ceil(N/B)
\* batches, each of at most B identifiers (all but the last of exactly B),
\* whose concatenation in order is the identifier sequence.
C2_Batcher ==
    pc = "gather" =>
        /\ Len(ids) >= 1
        /\ Len(batches) = CeilDiv(Len(ids), args.batch_size)
        /\ \A k \in 1..Len(batches) : Len(batches[k]) \in 1..args.batch_size
        /\ \A k \in 1..(Len(batches) - 1) : Len(batches[k]) = args.batch_size
        /\ Flatten(batches) = ids

C2_Witness ==
    /\ pc = "gather"
    /\ Len(ids) = 4 /\ args.batch_size = 3
    /\ Len(batches) = 2 /\ Len(batches[2]) = 1

\* C3 as stated: a non-empty inline list is the resolved sequence, also when
\* an ID file or a synthetic count comes with it.
C3_InlineFirst ==
    (pc \in {"gather", "aborted"} \cup AfterJoin /\ args.ids # <<>>) => ids = args.ids

\* C3, amended: the file comes first.  With --ids-file the resolved sequence
\* is the file's stripped non-blank lines whatever else is given (an empty
\* result is rejected, with no fallback); the inline list is used only with
\* no file, the synthetic sequence only with neither.
C3_FileFirst ==
    /\ pc \in {"gather", "aborted"} \cup AfterJoin =>
          /\ args.ids_file # "" => ids = ReadIdsFile(args.ids_file)
          /\ (args.ids_file = "" /\ args.ids # <<>>) => ids = args.ids
          /\ (args.ids_file = "" /\ args.ids = <<>>) => ids = SyntheticIds(args.num_ids)
    /\ (pc = "config_error" /\ args.ids_file # "") => ReadIdsFile(args.ids_file) = <<>>
    /\ (pc = "config_error" /\ args.ids_file = "") => (args.ids = <<>> /\ args.num_ids < 0)
    /\ (args.ids_file # "" /\ ReadIdsFile(args.ids_file) = <<>>) =>
          pc \in {"parsed", "run", "config_error"}

C3_Witness ==
    /\ pc = "gather"
    /\ args.ids_file = "ids.txt" /\ args.ids # <<>> /\ args.num_ids > 0
    /\ ids = << <<"A">>, <<"B", "C">> >>

\* No source is supplied, or the source the resolver selects yields nothing.
NoIdentifier(a) ==
    \/ (a.ids = <<>> /\ a.ids_file = "" /\ a.num_ids = 0)
    \/ (a.ids_file # "" /\ ReadIdsFile(a.ids_file) = <<>>)
    \/ (a.ids_file = "" /\ a.ids = <<>> /\ a.num_ids <= 0)

\* C4: when no source yields an identifier the load tester ends with a
\* configuration error and a non-zero exit, before any request is issued or
\* sample recorded and without a summary.
C4_NoIdentifiers ==
    NoIdentifier(args) =>
        /\ pc \in {"parsed", "run", "usage_error", "config_error"}
        /\ pc \in Final => ExitStatus(pc) # 0
        /\ wstate = <<>> /\ issuedBy = <<>> /\ responses = 0
        /\ results = <<>>
        /\ stdout = <<>> /\ ~csvFile.written

C4_Witness ==
    /\ pc = "config_error"
    /\ args.ids_file = "blank.txt" /\ args.ids # <<>>

NoDuplicates(s) == \A i, j \in 1..Len(s) : s[i] = s[j] => i = j

\* C5: a transport failure of one request is neither retried nor caught: the
\* run ends aborted, no summary (not even a partial one) is printed and no
\* CSV written, whatever the other workers had recorded.
C5_TransportAborts ==
    transportErrors > 0 =>
        /\ pc \in {"gather", "aborted"}
        /\ stdout = <<>> /\ ~csvFile.written
        /\ \A w \in Workers : NoDuplicates(issuedBy[w])
        /\ \A w \in Workers : wstate[w] = "failed" =>
              issuedBy[w][Len(issuedBy[w])] = <<wpass[w], wbatch[w]>>

C5_Witness ==
    /\ pc = "aborted"
    /\ Len(results) >= 3
    /\ \E w \in Workers : wstate[w] = "cancelled"

\* C6: every completed request appends exactly one sample, success status or
\* not; a non-success response only warns.  The number of samples is the
\* number of responses in every reachable state.
C6_OneSamplePerResponse ==
    /\ Len(results) = responses
    /\ warnings <= responses
    /\ pc = "gather" =>
          TotalIssued = responses + transportErrors
                           + Cardinality({w \in Workers : wstate[w] = "waiting"})
    /\ (pc \in AfterJoin) => Len(results) = TotalIssued

C6_Witness ==
    /\ pc = "done"
    /\ warnings = 8 /\ Len(results) = 8

ValueOf(label) ==
    LET k == CHOOSE i \in 1..Len(stdout) : stdout[i].label = label IN stdout[k].value

Printed(label) == \E i \in 1..Len(stdout) : stdout[i].label = label

\* C7: for every non-empty sample sequence print_summary completes and
\* reports count, mean, median, p95 (the last of the 19 cut points, inclusive
\* method), minimum and maximum as computed from the sequence.
C7_SummaryOfNonEmpty ==
    (pc \in AfterSummary /\ Len(results) >= 1) =>
        /\ pc # "crashed"
        /\ \A l \in {"Requests", "Mean", "Median", "P95", "Min | Max"} : Printed(l)
        /\ ValueOf("Requests") = <<Len(results)>>
        /\ ValueOf("Mean") = <<Milli2f(Mean(results))>>
        /\ ValueOf("Median") = <<Milli2f(Median(results))>>
        /\ ValueOf("P95") =
              <<Milli2f(IF Len(results) = 1 THEN <<results[1], 1>>
                        ELSE QuantilesInclusive(results, QuantileBuckets)[QuantileBuckets - 1])>>
        /\ ValueOf("Min | Max") = <<Milli2f(<<MinOf(results), 1>>), Milli2f(<<MaxOf(results), 1>>)>>

\* C8: on an empty sample collection the summary computation fails; it never
\* reports a mean, median, percentile, minimum or maximum.
C8_EmptyFails ==
    (pc \in AfterSummary /\ results = <<>>) =>
        /\ pc = "crashed"
        /\ \A i \in 1..Len(stdout) : stdout[i].label \in {"header", "Requests"}
        /\ ~csvFile.written

C8_Witness ==
    /\ pc = "crashed"
    /\ results = <<>>
    /\ args.concurrency = 0 /\ args.runs > 0
    /\ Printed("Requests")


-----------------------------------------------------------------------------
(* Properties of the seeder *)

\* The largest index the padded fields of a leaf identifier hold (line 137).
MaxTwoDigit == 10 ^ PadWidth - 1

RootKeys == {k \in DOMAIN categories_dict : Len(categories_dict[k].path_from_root) = 1}
LeafSet == {leaf_ids[i] : i \in 1..Len(leaf_ids)}
ChildrenOf(k) ==
    {categories_dict[k].children_categories[j].id :
        j \in 1..Len(categories_dict[k].children_categories)}

\* roots root categories, each with exactly its own leaves as children;
\* roots * leaves distinct leaf identifiers, each leaf with the path (root,
\* leaf) and no children; every product's category is one of the leaves.
CategoryTree(roots, leaves) ==
    LET rootKeys == RootKeys
        leafSet == LeafSet
    IN  /\ Cardinality(rootKeys) = roots
        /\ Len(leaf_ids) = roots * leaves
        /\ Cardinality(leafSet) = roots * leaves
        /\ DOMAIN categories_dict = rootKeys \cup leafSet
        /\ \A k \in rootKeys :
              LET children == ChildrenOf(k)
              IN  /\ categories_dict[k].id = k
                  /\ categories_dict[k].path_from_root = <<Ref(k)>>
                  /\ Len(categories_dict[k].children_categories) = leaves
                  /\ Cardinality(children) = leaves
                  /\ children \subseteq leafSet
                  /\ \A x \in children :
                        /\ categories_dict[x].path_from_root = <<Ref(k), Ref(x)>>
                        /\ categories_dict[x].children_categories = <<>>
        /\ \A x \in leafSet :
              /\ x \in DOMAIN categories_dict
              /\ categories_dict[x].id = x
              /\ Len(categories_dict[x].path_from_root) = 2
              /\ categories_dict[x].path_from_root[1].id \in rootKeys
              /\ categories_dict[x].path_from_root[2] = Ref(x)
              /\ categories_dict[x].children_categories = <<>>
        /\ category_repo = categories_dict
        /\ \A i \in 1..Len(created) : created[i].category_id \in leafSet
        /\ \A k \in DOMAIN product_repo : product_repo[k].category_id \in leafSet

ProductsOf(seller_id) == {i \in 1..Len(created) : created[i].seller_id = seller_id}

\* C10: run generates num_sellers * products_per_seller products; the indices
\* are handed out in increasing order and are exactly 1..S*P; the product
\* repository ends with S*P entries and every seller has exactly P products.
C10_Products ==
    /\ \A i \in 1..Len(created) :
          /\ created[i].id = MLA \o Decimal(i)
          /\ created[i].id \in DOMAIN product_repo
          /\ product_repo[created[i].id] = ProductDict(created[i])
    /\ Cardinality(DOMAIN product_repo) = Len(created)
    /\ spc = "running" => product_index = Len(created) + 1
    /\ spc = "saved" =>
          /\ Len(created) = scfg.num_sellers * scfg.products_per_seller
          /\ product_index = scfg.num_sellers * scfg.products_per_seller + 1
          /\ report[2] = scfg.num_sellers * scfg.products_per_seller
          /\ \A s \in 1..scfg.num_sellers :
                Cardinality(ProductsOf(SellerIds(scfg.num_sellers)[s])) = scfg.products_per_seller
          /\ \A i \in 1..Len(created) :
                \E s \in 1..scfg.num_sellers : created[i].seller_id = SellerIds(scfg.num_sellers)[s]

C10_Witness ==
    /\ spc = "saved"
    /\ scfg.num_sellers = 2 /\ scfg.products_per_seller = 2
    /\ Cardinality(DOMAIN product_repo) = 4
    /\ created[4].id = <<"M", "L", "A", "4">>
    /\ created[3].seller_id = <<"SELLER_", "2">>

=============================================================================
